---- MODULE Spec2Model ----
(***************************************************************************)
(* A model of the CSV data QA tool (src/app.py): the ingestion of uploaded  *)
(* or downloaded payloads (process_file_data, read_csv_content), the        *)
(* per-file analysis (identifier column, identifier set, duplicate audit)   *)
(* and the global cross-file consistency report.                            *)
(*                                                                         *)
(* One run of the script is a walk of pc:                                   *)
(*   "input" -> "classify" -> "entries" -> "returned" | "raised" -> ...     *)
(*   -> "main" -> "recon" -> "details" -> "done"                            *)
(* A change of a widget re-runs the script from the top (Streamlit).        *)
(*                                                                         *)
(* SpecIngest  one run, from the input section (upload or URL) to its end   *)
(* SpecUrl     the runs of SpecIngest that use the URL input                *)
(* SpecRecon   the main processing logic over up to MaxTables tables        *)
(* SpecFile    one table, analysed again after each change of the key       *)
(*             columns of its duplicate analysis                            *)
(***************************************************************************)
EXTENDS Integers, Sequences, FiniteSets, TLC

VARIABLES
    pc,               \* position of the script
    loaded_dfs,       \* dict file name -> dataframe (line 82), insertion ordered
    i,                \* index of the per-file analysis loop (line 127)
    file_id_sets,     \* dict file name -> set of identifier strings (line 125)
    id_report,        \* per analysed file: id_col and id_nulls (lines 133-149)
    dup_report,       \* per analysed file: the duplicate analysis (lines 158-178)
    widget,           \* the user's multiselect choice per file tab, or Default
    prev_dup_report,  \* dup_report of the run before the last widget change
    gate,             \* what part 2 reported: "none" | "insufficient" | "reconciled"
    summary_data,     \* rows of the summary table (line 192)
    perfect_match,    \* the PERFECT MATCH message was shown (line 218)
    details,          \* the detailed mismatches, one record per file with a gap
    input_method,     \* the radio of the sidebar (line 80)
    url,              \* the text input of the URL branch, split at "/" (line 92)
    files_left,       \* uploaded files the loop of line 87 has not reached yet
    payload,          \* arguments of the running call of process_file_data
    namelist,         \* z.namelist() of the open archive (line 60)
    sub,              \* index of sub_file in namelist
    processed_dfs,    \* the local dict of process_file_data (line 53)
    raised,           \* the exception that left process_file_data, or None
    errors,           \* the st.error messages shown by the input section
    fetch,            \* status of the response and what lines 97-98 raised
    corrupt,          \* history: zipfile.BadZipFile was raised for this payload
    decoded,          \* history: entries of this payload read_csv_content decoded
    ingested          \* history: payloads whose call returned at least one table

mainVars == <<i, file_id_sets, id_report, dup_report, gate, summary_data,
              perfect_match, details>>
callVars == <<payload, namelist, sub, processed_dfs, raised, corrupt, decoded>>
inputVars == <<input_method, url, files_left, errors, fetch, ingested, callVars>>
vars == <<pc, loaded_dfs, widget, prev_dup_report, mainVars, inputVars>>

-----------------------------------------------------------------------------
(* Bounds of the model *)

\* the largest number of loaded tables of a reconciliation run
MaxTables == 5

\* the largest number of rows of the table of a duplicate analysis run
MaxRows == 4

\* the largest number of files of one upload
MaxPayloads == 2

\* the largest number of entries of an archive
MaxEntries == 3

-----------------------------------------------------------------------------
(* Python values *)

None == "None"

\* A dict is a sequence of [k, v] pairs in insertion order (Python 3.7+).
EmptyDict == << >>

Keys(d) == [n \in 1..Len(d) |-> d[n].k]

KeySet(d) == {d[n].k : n \in 1..Len(d)}

\* the position of key k
Get(d, k) == CHOOSE n \in 1..Len(d) : d[n].k = k

\* d[k]
Lookup(d, k) == d[Get(d, k)].v

\* d[k] = v : an existing key keeps its position, a new key is appended
Put(d, k, v) ==
    IF k \in KeySet(d)
    THEN [d EXCEPT ![Get(d, k)] = [k |-> k, v |-> v]]
    ELSE Append(d, [k |-> k, v |-> v])

RECURSIVE Update(_, _)
\* d.update(new)
Update(d, new) ==
    IF new = << >> THEN d
    ELSE Update(Put(d, Head(new).k, Head(new).v), Tail(new))

\* s[:n]
Prefix(s, n) == SubSeq(s, 1, IF Len(s) < n THEN Len(s) ELSE n)

\* the elements of s at the positions of keep, from position n on, in order
RECURSIVE SelectIdx(_, _, _)
SelectIdx(s, keep, n) ==
    IF n > Len(s) THEN << >>
    ELSE (IF n \in keep THEN <<s[n]>> ELSE << >>) \o SelectIdx(s, keep, n + 1)

-----------------------------------------------------------------------------
(* File names.  A name is kept in three parts so that the string tests of   *)
(* the code (startswith, lower().endswith) are computed, not assumed.       *)

FileName(prefix, stem, ext) == [prefix |-> prefix, stem |-> stem, ext |-> ext]

\* no call of process_file_data is running
NoPayload == [name |-> FileName("", "", ""), kind |-> None]

\* no request was made
NoFetch == [status |-> 0, raised |-> None]

\* the name of the n-th uploaded table
TableName(n) == FileName("", "t" \o ToString(n), ".csv")

-----------------------------------------------------------------------------
(* Dataframes.  A dataframe is its ordered column names and its rows; a    *)
(* cell is the text of the CSV field, the empty text being NaN.             *)

NaN == ""

PermitNumber == "Permit Number"
RecordNumber == "Record Number"
NameColumn == "Name"

DataFrame(columns, rows) == [columns |-> columns, rows |-> rows]

ColumnSet(df) == {df.columns[n] : n \in 1..Len(df.columns)}

ColIndex(df, c) == CHOOSE n \in 1..Len(df.columns) : df.columns[n] = c

\* df[c] : the cells of column c, by row
Column(df, c) == [r \in 1..Len(df.rows) |-> df.rows[r][ColIndex(df, c)]]

IsNull(cell) == cell = NaN

\* the texts read_csv parses as integers
NumericText == {"1", "2", "3"}

\* the dtype read_csv infers for a column of cells
DType(cells) ==
    LET vals == {cells[r] : r \in DOMAIN cells}
    IN  IF \E v \in vals : ~IsNull(v) /\ v \notin NumericText THEN "object"
        ELSE IF \E v \in vals : IsNull(v) THEN "float64"
        ELSE IF vals = {} THEN "object"
        ELSE "int64"

\* astype(str) of one non-null cell of a column of that dtype
AsTypeStr(cell, dtype) == IF dtype = "float64" THEN cell \o ".0" ELSE cell

-----------------------------------------------------------------------------
(* normalize_id_column (lines 22-31) *)

\* the bug of resolving by the table's column order instead of by priority
NormalizeIdColumn_ByColumnOrder(df) ==
    LET hits == {n \in 1..Len(df.columns) :
                    df.columns[n] \in {PermitNumber, RecordNumber}}
    IN  IF hits = {} THEN None
        ELSE df.columns[CHOOSE n \in hits : \A m \in hits : n <= m]

NormalizeIdColumn(df) ==
    IF PermitNumber \in ColumnSet(df) THEN PermitNumber
    ELSE IF RecordNumber \in ColumnSet(df) THEN RecordNumber
    ELSE None

-----------------------------------------------------------------------------
(* Part 1, per file: the identifier check (lines 133-153) *)

\* df[id_col].isnull().sum()
IdNulls(df, id_col) ==
    Cardinality({r \in 1..Len(df.rows) : IsNull(Column(df, id_col)[r])})

\* set(df[id_col].dropna().astype(str))
CurrentIds(df, id_col) ==
    LET cells == Column(df, id_col)
        kept  == {cells[r] : r \in {q \in DOMAIN cells : ~IsNull(cells[q])}}
    IN  {AsTypeStr(v, DType(cells)) : v \in kept}

\* the bug of leaving a table without identifier column out of file_id_sets
FileIdSetsAfter_SkipNoId(fis, fname, df) ==
    IF NormalizeIdColumn(df) = None THEN fis
    ELSE Put(fis, fname, CurrentIds(df, NormalizeIdColumn(df)))

\* file_id_sets after the identifier check of file fname (lines 135-153)
FileIdSetsAfter(fis, fname, df) ==
    IF NormalizeIdColumn(df) = None THEN Put(fis, fname, {})
    ELSE Put(fis, fname, CurrentIds(df, NormalizeIdColumn(df)))

IdReport(fname, df) ==
    LET id_col == NormalizeIdColumn(df)
    IN  [fname |-> fname, id_col |-> id_col,
         id_nulls |-> IF id_col = None THEN 0 ELSE IdNulls(df, id_col)]

-----------------------------------------------------------------------------
(* Part 1, per file: the duplicate analysis (lines 158-178) *)

\* the multiselect of a tab the user has not touched shows its default
Default == [touched |-> FALSE, cols |-> {}]
Chosen(cols) == [touched |-> TRUE, cols |-> cols]

\* default_cols = [id_col] if id_col else []
DefaultCols(id_col) == IF id_col # None THEN {id_col} ELSE {}

\* the value st.multiselect returns
ColsToCheck(w, default_cols) == IF w.touched THEN w.cols ELSE default_cols

\* the bug of matching on any column of the key instead of on all of them
SameKey_AnyColumn(df, subset, r, q) ==
    \E c \in subset : Column(df, c)[r] = Column(df, c)[q]

\* rows r and q agree on every column of subset (NaN equals NaN here)
SameKey(df, subset, r, q) ==
    \A c \in subset : Column(df, c)[r] = Column(df, c)[q]

\* df.duplicated(subset=cols_to_check, keep=False), as the set of marked rows
DupMask(df, subset) ==
    {r \in 1..Len(df.rows) :
        \E q \in 1..Len(df.rows) : q # r /\ SameKey(df, subset, r, q)}

\* lines 168-178: nothing at all is computed or shown for an empty selection
DuplicateAnalysis(fname, df, cols_to_check) ==
    IF cols_to_check # {}
    THEN [fname |-> fname, cols |-> cols_to_check, audited |-> TRUE,
          dup_count |-> Cardinality(DupMask(df, cols_to_check)),
          dup_rows |-> DupMask(df, cols_to_check)]
    ELSE [fname |-> fname, cols |-> cols_to_check, audited |-> FALSE,
          dup_count |-> 0, dup_rows |-> {}]

-----------------------------------------------------------------------------
(* Part 2: global cross-file consistency (lines 185-255) *)

\* how many source files the mismatch message names (source_files[:3])
SourceHead == 3

\* the bug of intersecting where the union is meant
AllIdsUnion_Intersection(fis) ==
    IF fis = << >> THEN {}
    ELSE {x \in fis[1].v : \A n \in 1..Len(fis) : x \in fis[n].v}

\* set().union(*file_id_sets.values())
AllIdsUnion(fis) == UNION {fis[n].v : n \in 1..Len(fis)}

\* one turn of the summary loop (lines 194-213)
SummaryRow(fname, f_ids, all_ids_union) ==
    LET missing_ids == all_ids_union \ f_ids
    IN  [fname |-> fname,
         status |-> IF missing_ids # {} THEN "Inconsistent" ELSE "Complete",
         total |-> Cardinality(f_ids),
         missing |-> IF missing_ids # {} THEN Cardinality(missing_ids) ELSE 0]

SummaryData(fis) ==
    [n \in 1..Len(fis) |-> SummaryRow(fis[n].k, fis[n].v, AllIdsUnion(fis))]

InconsistencyFound(fis) ==
    \E n \in 1..Len(fis) : AllIdsUnion(fis) \ fis[n].v # {}

\* the bug of forgetting "other_fname != fname" and testing the table's own ids
SourceFiles_NoSelfTest(fis, fname, missing_from_this_file) ==
    SelectIdx(Keys(fis),
              {n \in 1..Len(fis) : fis[n].v # {}},
              1)

\* lines 238-243: the other files that hold one of the missing ids, in order
SourceFiles(fis, fname, missing_from_this_file) ==
    SelectIdx(Keys(fis),
              {n \in 1..Len(fis) :
                  /\ fis[n].k # fname
                  /\ (missing_from_this_file \cap fis[n].v) # {}},
              1)

\* lines 234-253 for one file with a gap
Mismatch(fis, fname, f_ids) ==
    LET missing_from_this_file == AllIdsUnion(fis) \ f_ids
        source_files == SourceFiles(fis, fname, missing_from_this_file)
    IN  [fname |-> fname,
         missing |-> missing_from_this_file,
         source_files |-> source_files,
         shown |-> Prefix(source_files, SourceHead)]

\* lines 228-255: one record per file whose gap is not empty, in dict order
Mismatches(fis) ==
    LET all == [n \in 1..Len(fis) |-> Mismatch(fis, fis[n].k, fis[n].v)]
    IN  SelectIdx(all, {n \in 1..Len(fis) : all[n].missing # {}}, 1)

-----------------------------------------------------------------------------
(* The main processing logic as steps of the script (lines 117-255) *)

\* the input section is over: n uploaded CSV files were ingested, one table each
UploadsIngested(n) ==
    /\ input_method = "File Upload"
    /\ url = << >>
    /\ files_left = 0
    /\ payload = NoPayload
    /\ namelist = << >>
    /\ sub = 1
    /\ processed_dfs = EmptyDict
    /\ raised = None
    /\ errors = {}
    /\ fetch = NoFetch
    /\ corrupt = FALSE
    /\ decoded = {}
    /\ ingested = n

\* what a run has reported before its main part starts
MainStart ==
    /\ i = 1
    /\ file_id_sets = EmptyDict
    /\ id_report = << >>
    /\ dup_report = << >>
    /\ gate = "none"
    /\ summary_data = << >>
    /\ perfect_match = FALSE
    /\ details = << >>

\* "if loaded_dfs:" is false: the script ends having reported nothing
NothingLoaded ==
    /\ pc = "main"
    /\ loaded_dfs = EmptyDict
    /\ pc' = "done"
    /\ UNCHANGED <<inputVars, loaded_dfs, widget, prev_dup_report, mainVars>>

\* one turn of the loop over the file tabs (lines 127-178)
AnalyzeFile ==
    /\ pc = "main"
    /\ loaded_dfs # EmptyDict
    /\ i <= Len(loaded_dfs)
    /\ LET file_name == loaded_dfs[i].k
           df == loaded_dfs[i].v
           id_col == NormalizeIdColumn(df)
           cols_to_check == ColsToCheck(widget[i], DefaultCols(id_col))
       IN  /\ file_id_sets' = FileIdSetsAfter(file_id_sets, file_name, df)
           /\ id_report' = Append(id_report, IdReport(file_name, df))
           /\ dup_report' =
                 Append(dup_report, DuplicateAnalysis(file_name, df, cols_to_check))
    /\ i' = i + 1
    /\ pc' = IF i = Len(loaded_dfs) THEN "recon" ELSE "main"
    /\ UNCHANGED <<inputVars, loaded_dfs, widget, prev_dup_report, gate, summary_data,
                   perfect_match, details>>

\* "if len(loaded_dfs) < 2" (lines 185-186)
NeedTwoFiles ==
    /\ pc = "recon"
    /\ Len(loaded_dfs) < 2
    /\ gate' = "insufficient"
    /\ pc' = "done"
    /\ UNCHANGED <<inputVars, loaded_dfs, widget, prev_dup_report, i, file_id_sets,
                   id_report, dup_report, summary_data, perfect_match, details>>

\* the summary table and the verdict (lines 188-220)
Reconcile ==
    /\ pc = "recon"
    /\ Len(loaded_dfs) >= 2
    /\ gate' = "reconciled"
    /\ summary_data' = SummaryData(file_id_sets)
    /\ perfect_match' = ~InconsistencyFound(file_id_sets)
    /\ pc' = IF InconsistencyFound(file_id_sets) THEN "details" ELSE "done"
    /\ UNCHANGED <<inputVars, loaded_dfs, widget, prev_dup_report, i, file_id_sets,
                   id_report, dup_report, details>>

\* the expander with the detailed mismatches (lines 223-255)
DetailedMismatches ==
    /\ pc = "details"
    /\ details' = Mismatches(file_id_sets)
    /\ pc' = "done"
    /\ UNCHANGED <<inputVars, loaded_dfs, widget, prev_dup_report, i, file_id_sets,
                   id_report, dup_report, gate, summary_data, perfect_match>>

-----------------------------------------------------------------------------
(* Specification SpecRecon: the main processing logic over every choice of *)
(* up to MaxTables uploaded tables.                                        *)

\* tables of the reconciliation runs: one without identifier column, tables
\* keyed by 'Permit Number' with no row, one row and two rows, and one keyed
\* by 'Record Number' with a row whose identifier is missing
ReconDFs ==
    { DataFrame(<<NameColumn>>, <<<<"a">>>>),
      DataFrame(<<PermitNumber, NameColumn>>, << >>),
      DataFrame(<<PermitNumber, NameColumn>>, <<<<"1", "a">>>>),
      DataFrame(<<PermitNumber, NameColumn>>, <<<<"1", "a">>, <<"2", "b">>>>),
      DataFrame(<<NameColumn, RecordNumber>>,
                <<<<"a", "1">>, <<"b", NaN>>, <<"c", "2">>>>) }

\* loaded_dfs after the upload of the CSV files t1.csv .. tn.csv
Uploaded(f) == [n \in DOMAIN f |-> [k |-> TableName(n), v |-> f[n]]]

InitRecon ==
    /\ pc = "main"
    /\ loaded_dfs \in {Uploaded(f) :
                          f \in UNION {[1..n -> ReconDFs] : n \in 0..MaxTables}}
    /\ widget = [n \in 1..Len(loaded_dfs) |-> Default]
    /\ prev_dup_report = << >>
    /\ MainStart
    /\ UploadsIngested(Len(loaded_dfs))

NextRecon ==
    \/ NothingLoaded
    \/ AnalyzeFile
    \/ NeedTwoFiles
    \/ Reconcile
    \/ DetailedMismatches

SpecRecon == InitRecon /\ [][NextRecon]_vars

-----------------------------------------------------------------------------
(* Specification SpecFile: one uploaded table, analysed again each time the *)
(* user changes the columns of the duplicate analysis.                      *)

\* the user changes the multiselect of tab n: Streamlit re-runs the script,
\* which ingests the same upload again and starts its report afresh
UserSelects ==
    /\ pc = "done"
    /\ \E n \in 1..Len(loaded_dfs) :
          \E cols \in SUBSET ColumnSet(loaded_dfs[n].v) :
              widget' = [widget EXCEPT ![n] = Chosen(cols)]
    /\ prev_dup_report' = dup_report
    /\ pc' = "main"
    /\ i' = 1
    /\ file_id_sets' = EmptyDict
    /\ id_report' = << >>
    /\ dup_report' = << >>
    /\ gate' = "none"
    /\ summary_data' = << >>
    /\ perfect_match' = FALSE
    /\ details' = << >>
    /\ UNCHANGED <<loaded_dfs, inputVars>>

\* the cells of the tables of the duplicate analysis runs
FileCells == {"1", "2"}

\* the column layouts: one or two of the three columns, in either order
FileLayouts ==
    {<<c>> : c \in {PermitNumber, RecordNumber, NameColumn}}
    \cup {<<c, d>> : <<c, d>> \in
            {p \in {PermitNumber, RecordNumber, NameColumn}
                   \X {PermitNumber, RecordNumber, NameColumn} : p[1] # p[2]}}

FileDFs ==
    {DataFrame(cols, rows) :
        <<cols, rows>> \in
            UNION {{cols} \X UNION {[1..n -> [1..Len(cols) -> FileCells]] :
                                       n \in 0..MaxRows} : cols \in FileLayouts}}

InitFile ==
    /\ pc = "main"
    /\ loaded_dfs \in {Uploaded(<<df>>) : df \in FileDFs}
    /\ widget = <<Default>>
    /\ prev_dup_report = << >>
    /\ MainStart
    /\ UploadsIngested(1)

NextFile ==
    \/ AnalyzeFile
    \/ NeedTwoFiles
    \/ UserSelects

SpecFile == InitFile /\ [][NextFile]_vars

-----------------------------------------------------------------------------
(* read_csv_content (lines 33-46) *)

\* What the bytes of a CSV payload make of pd.read_csv: how the read with the
\* default encoding ends (utf8), how the read with encoding='latin-1' ends
\* (latin1), and the dataframe a read that succeeds returns.
Content(utf8, latin1, df) == [utf8 |-> utf8, latin1 |-> latin1, df |-> df]

\* the dataframes of the ingestion runs
IngestDFs ==
    { DataFrame(<<PermitNumber, NameColumn>>, <<<<"1", "a">>>>),
      DataFrame(<<PermitNumber, NameColumn>>, <<<<"1", "a">>, <<"2", "b">>>>) }

NoDF == DataFrame(<< >>, << >>)

Contents ==
    {Content("ok", "ok", df) : df \in IngestDFs}
    \cup {Content("UnicodeDecodeError", "ok", df) : df \in IngestDFs}
    \cup {Content("UnicodeDecodeError", "ParserError", NoDF),
          Content("ParserError", "ParserError", NoDF),
          Content("EmptyDataError", "EmptyDataError", NoDF)}

Returns(df) == [returned |-> TRUE, is_none |-> FALSE, df |-> df, raised |-> None]
ReturnsNone == [returned |-> TRUE, is_none |-> TRUE, df |-> NoDF, raised |-> None]
Raises(e) == [returned |-> FALSE, is_none |-> TRUE, df |-> NoDF, raised |-> e]

\* An exception raised inside the handler of UnicodeDecodeError is not caught
\* by the except clauses that follow it: they guard the try block only.
ReadCsvContent(content) ==
    IF content.utf8 = "ok" THEN Returns(content.df)
    ELSE IF content.utf8 = "UnicodeDecodeError"
         THEN (IF content.latin1 = "ok" THEN Returns(content.df)
               ELSE Raises(content.latin1))
    ELSE IF content.utf8 = "ParserError" THEN ReturnsNone
    ELSE ReturnsNone

-----------------------------------------------------------------------------
(* process_file_data (lines 48-76) *)

\* str.lower() of a file extension
Lower(ext) == IF ext = ".CSV" THEN ".csv" ELSE IF ext = ".TXT" THEN ".txt" ELSE ext

\* the test of line 61
IsCsvEntry(sub_file) ==
    /\ Lower(sub_file.ext) = ".csv"
    /\ sub_file.prefix # "__MACOSX/"
    /\ sub_file.prefix # "."

ArchiveNames ==
    { FileName("", "a", ".csv"), FileName("", "b", ".csv"), FileName("", "c", ".CSV"),
      FileName("", "notes", ".txt"), FileName("__MACOSX/", "a", ".csv"),
      FileName(".", "hidden", ".csv") }

\* the name lists of archives whose entries have distinct names
Namelists ==
    {s \in UNION {[1..n -> ArchiveNames] : n \in 0..MaxEntries} :
        \A a, b \in DOMAIN s : s[a] = s[b] => a = b}

\* the payloads a user uploads or a URL serves: a CSV file or a ZIP archive
Payloads ==
    {[name |-> FileName("", stem, ".csv"), kind |-> "csv"] : stem \in {"a", "b"}}
    \cup {[name |-> FileName("", "data", ".zip"), kind |-> "zip"]}

\* process_file_data is called (lines 53-54)
Call(p) ==
    /\ payload' = p
    /\ namelist' = << >>
    /\ sub' = 1
    /\ processed_dfs' = EmptyDict
    /\ raised' = None
    /\ corrupt' = FALSE
    /\ decoded' = {}
    /\ pc' = "classify"

\* zipfile.is_zipfile is true and zipfile.ZipFile reads the directory (57-60)
OpenArchive ==
    /\ pc = "classify"
    /\ payload.kind = "zip"
    /\ \E names \in Namelists :
          /\ namelist' = names
          /\ pc' = IF names = << >> THEN "returned" ELSE "entries"
    /\ UNCHANGED <<loaded_dfs, widget, prev_dup_report, mainVars, input_method,
                   url, files_left, errors, fetch, ingested, payload, sub,
                   processed_dfs, raised, corrupt, decoded>>

\* zipfile.ZipFile finds the directory of the archive damaged (59, 66-67)
OpenCorruptArchive ==
    /\ pc = "classify"
    /\ payload.kind = "zip"
    /\ corrupt' = TRUE
    /\ errors' = errors \cup {"corrupted zip"}
    /\ pc' = "returned"
    /\ UNCHANGED <<loaded_dfs, widget, prev_dup_report, mainVars, input_method,
                   url, files_left, fetch, ingested, payload, namelist, sub,
                   processed_dfs, raised, decoded>>

\* the bug of storing an entry into the global dict of the script
StoreEntry_IntoLoaded(processed, loaded, sub_file, df) ==
    <<Put(processed, sub_file, df), Put(loaded, sub_file, df)>>

\* line 65 (and 74): the local dict and the dict of the script after the store
StoreEntry(processed, loaded, sub_file, df) ==
    <<Put(processed, sub_file, df), loaded>>

\* the loop goes on to the next entry, or ends and the function returns
NextEntry ==
    /\ sub' = sub + 1
    /\ pc' = IF sub = Len(namelist) THEN "returned" ELSE "entries"

\* one turn of the loop over namelist: an entry the test of line 61 rejects
SkipEntry ==
    /\ pc = "entries"
    /\ ~IsCsvEntry(namelist[sub])
    /\ NextEntry
    /\ UNCHANGED <<loaded_dfs, widget, prev_dup_report, mainVars, input_method,
                   url, files_left, errors, fetch, ingested, payload, namelist,
                   processed_dfs, raised, corrupt, decoded>>

\* one turn of the loop: z.open finds the entry damaged (62, 66-67); the
\* loop is left, the entries stored so far stay in processed_dfs
OpenCorruptEntry ==
    /\ pc = "entries"
    /\ IsCsvEntry(namelist[sub])
    /\ corrupt' = TRUE
    /\ errors' = errors \cup {"corrupted zip"}
    /\ pc' = "returned"
    /\ UNCHANGED <<loaded_dfs, widget, prev_dup_report, mainVars, input_method,
                   url, files_left, fetch, ingested, payload, namelist, sub,
                   processed_dfs, raised, decoded>>

\* one turn of the loop: the entry is opened and read (lines 62-65)
ReadEntry ==
    /\ pc = "entries"
    /\ IsCsvEntry(namelist[sub])
    /\ \E content \in Contents :
          LET df == ReadCsvContent(content)
              stored == StoreEntry(processed_dfs, loaded_dfs, namelist[sub], df.df)
          IN  IF ~df.returned
              THEN /\ raised' = df.raised
                   /\ pc' = "raised"
                   /\ UNCHANGED <<sub, processed_dfs, loaded_dfs, decoded>>
              ELSE IF df.is_none
              THEN /\ NextEntry
                   /\ UNCHANGED <<raised, processed_dfs, loaded_dfs, decoded>>
              ELSE /\ NextEntry
                   /\ processed_dfs' = stored[1]
                   /\ loaded_dfs' = stored[2]
                   /\ decoded' = decoded \cup {namelist[sub]}
                   /\ UNCHANGED raised
    /\ UNCHANGED <<widget, prev_dup_report, mainVars, input_method, url,
                   files_left, errors, fetch, ingested, payload, namelist, corrupt>>

\* the payload is no archive: it is read as one CSV (lines 70-74)
ReadSingleCsv ==
    /\ pc = "classify"
    /\ payload.kind = "csv"
    /\ \E content \in Contents :
          LET df == ReadCsvContent(content)
              stored == StoreEntry(processed_dfs, loaded_dfs, payload.name, df.df)
          IN  IF ~df.returned
              THEN /\ raised' = df.raised
                   /\ pc' = "raised"
                   /\ UNCHANGED <<processed_dfs, loaded_dfs, decoded>>
              ELSE IF df.is_none
              THEN /\ pc' = "returned"
                   /\ UNCHANGED <<raised, processed_dfs, loaded_dfs, decoded>>
              ELSE /\ pc' = "returned"
                   /\ processed_dfs' = stored[1]
                   /\ loaded_dfs' = stored[2]
                   /\ decoded' = decoded \cup {payload.name}
                   /\ UNCHANGED raised
    /\ UNCHANGED <<widget, prev_dup_report, mainVars, input_method, url,
                   files_left, errors, fetch, ingested, payload, namelist, sub,
                   corrupt>>

-----------------------------------------------------------------------------
(* The input section (lines 82-113) *)

\* the main part starts: every tab shows the default of its multiselect
EnterMain(loaded) ==
    /\ pc' = "main"
    /\ widget' = [n \in 1..Len(loaded) |-> Default]

\* the call is over: its frame is gone, new_dfs holds what it returned
Returned ==
    /\ payload' = NoPayload
    /\ namelist' = << >>
    /\ sub' = 1
    /\ corrupt' = FALSE
    /\ decoded' = {}
    /\ UNCHANGED <<processed_dfs, raised>>

\* the next uploaded file is read and handed to process_file_data (87-88)
UploadNext ==
    /\ pc = "input"
    /\ input_method = "File Upload"
    /\ files_left > 0
    /\ files_left' = files_left - 1
    /\ \E p \in Payloads : Call(p)
    /\ UNCHANGED <<loaded_dfs, widget, prev_dup_report, mainVars, input_method,
                   url, errors, fetch, ingested>>

\* loaded_dfs.update(new_dfs) (line 89)
UploadUpdate ==
    /\ pc = "returned"
    /\ input_method = "File Upload"
    /\ loaded_dfs' = Update(loaded_dfs, processed_dfs)
    /\ ingested' = IF processed_dfs # EmptyDict THEN ingested + 1 ELSE ingested
    /\ pc' = "input"
    /\ Returned
    /\ UNCHANGED <<widget, prev_dup_report, mainVars, input_method, url,
                   files_left, errors, fetch>>

\* no uploaded file is left (or none was uploaded)
UploadEnd ==
    /\ pc = "input"
    /\ input_method = "File Upload"
    /\ files_left = 0
    /\ EnterMain(loaded_dfs)
    /\ UNCHANGED <<loaded_dfs, prev_dup_report, mainVars, inputVars>>

\* nothing catches the exception in the upload branch: the script run ends
UploadCrash ==
    /\ pc = "raised"
    /\ input_method = "File Upload"
    /\ pc' = "crashed"
    /\ UNCHANGED <<loaded_dfs, widget, prev_dup_report, mainVars, inputVars>>

\* url.split("/")[-1], "downloaded_data" if that is empty (lines 100-102)
UrlFileName(u) ==
    IF u[Len(u)] = FileName("", "", "") THEN FileName("", "downloaded_data", "")
    ELSE u[Len(u)]

\* response.raise_for_status() raises for a 4xx or 5xx status (line 98)
RaiseForStatus(status) == status >= 400 /\ status < 600

\* the URLs of the runs, split at "/"
Urls ==
    { <<FileName("", "https:", ""), FileName("", "", ""), FileName("", "host", ""),
        FileName("", "a", ".csv")>>,
      <<FileName("", "https:", ""), FileName("", "", ""), FileName("", "host", ""),
        FileName("", "", "")>> }

\* no URL is entered, or the button is not pressed (lines 93-94)
UrlIdle ==
    /\ pc = "input"
    /\ input_method = "File URL"
    /\ url = << >>
    /\ EnterMain(loaded_dfs)
    /\ UNCHANGED <<loaded_dfs, prev_dup_report, mainVars, inputVars>>

\* requests.get raises (line 97): the handler of line 112 reports it
UrlRequestFails ==
    /\ pc = "input"
    /\ input_method = "File URL"
    /\ url # << >>
    /\ fetch' = [status |-> 0, raised |-> "RequestException"]
    /\ errors' = errors \cup {"error downloading"}
    /\ EnterMain(loaded_dfs)
    /\ UNCHANGED <<loaded_dfs, prev_dup_report, mainVars, input_method, url,
                   files_left, ingested, callVars>>

\* requests.get returns a response (lines 97-104)
UrlResponse ==
    /\ pc = "input"
    /\ input_method = "File URL"
    /\ url # << >>
    /\ \E status \in {200, 404, 503} :
          IF RaiseForStatus(status)
          THEN /\ fetch' = [status |-> status, raised |-> "HTTPError"]
               /\ errors' = errors \cup {"error downloading"}
               /\ EnterMain(loaded_dfs)
               /\ UNCHANGED callVars
          ELSE /\ fetch' = [status |-> status, raised |-> None]
               /\ \E kind \in {"csv", "zip"} :
                     Call([name |-> UrlFileName(url), kind |-> kind])
               /\ UNCHANGED <<errors, widget>>
    /\ UNCHANGED <<loaded_dfs, prev_dup_report, mainVars, input_method, url,
                   files_left, ingested>>

\* lines 105-110
UrlUpdate ==
    /\ pc = "returned"
    /\ input_method = "File URL"
    /\ loaded_dfs' = Update(loaded_dfs, processed_dfs)
    /\ ingested' = IF processed_dfs # EmptyDict THEN ingested + 1 ELSE ingested
    /\ errors' = IF processed_dfs = EmptyDict
                 THEN errors \cup {"no valid CSV"} ELSE errors
    /\ EnterMain(loaded_dfs')
    /\ Returned
    /\ UNCHANGED <<prev_dup_report, mainVars, input_method, url, files_left,
                   fetch>>

\* an exception of process_file_data is caught by the handler of line 112
UrlCaught ==
    /\ pc = "raised"
    /\ input_method = "File URL"
    /\ errors' = errors \cup {"error downloading"}
    /\ EnterMain(loaded_dfs)
    /\ UNCHANGED <<loaded_dfs, prev_dup_report, mainVars, input_method, url,
                   files_left, fetch, ingested, callVars>>

-----------------------------------------------------------------------------
(* Specification SpecIngest: one run of the script from its input section *)

InitIngest ==
    /\ pc = "input"
    /\ loaded_dfs = EmptyDict
    /\ widget = << >>
    /\ prev_dup_report = << >>
    /\ MainStart
    /\ \/ /\ input_method = "File Upload"
          /\ url = << >>
          /\ files_left \in 0..MaxPayloads
       \/ /\ input_method = "File URL"
          /\ url \in Urls \cup {<< >>}
          /\ files_left = 0
    /\ payload = NoPayload
    /\ namelist = << >>
    /\ sub = 1
    /\ processed_dfs = EmptyDict
    /\ raised = None
    /\ errors = {}
    /\ fetch = NoFetch
    /\ corrupt = FALSE
    /\ decoded = {}
    /\ ingested = 0

NextIngest ==
    \/ UploadNext
    \/ UploadUpdate
    \/ UploadEnd
    \/ UploadCrash
    \/ UrlIdle
    \/ UrlRequestFails
    \/ UrlResponse
    \/ UrlUpdate
    \/ UrlCaught
    \/ OpenArchive
    \/ OpenCorruptArchive
    \/ SkipEntry
    \/ OpenCorruptEntry
    \/ ReadEntry
    \/ ReadSingleCsv
    \/ NothingLoaded
    \/ AnalyzeFile
    \/ NeedTwoFiles
    \/ Reconcile
    \/ DetailedMismatches

SpecIngest == InitIngest /\ [][NextIngest]_vars

-----------------------------------------------------------------------------
(* Specification SpecUrl: the runs of the script that use the URL input *)

InitUrl == InitIngest /\ input_method = "File URL"

NextUrl ==
    \/ UrlIdle
    \/ UrlRequestFails
    \/ UrlResponse
    \/ UrlUpdate
    \/ UrlCaught
    \/ OpenArchive
    \/ OpenCorruptArchive
    \/ SkipEntry
    \/ OpenCorruptEntry
    \/ ReadEntry
    \/ ReadSingleCsv
    \/ NothingLoaded
    \/ AnalyzeFile
    \/ NeedTwoFiles
    \/ Reconcile
    \/ DetailedMismatches

SpecUrl == InitUrl /\ [][NextUrl]_vars

-----------------------------------------------------------------------------
(* Properties of the reconciliation report, checked under SpecRecon *)

\* the identifier set the analysis stored for file fname, {} if it stored none
StoredIds(fname) ==
    IF fname \in KeySet(file_id_sets) THEN Lookup(file_id_sets, fname) ELSE {}

\* every identifier some loaded table holds
EveryId == {x \in UNION {StoredIds(loaded_dfs[n].k) : n \in 1..Len(loaded_dfs)} : TRUE}

\* the gap of file fname: the identifiers of the union it does not hold
Gap(fname) == EveryId \ StoredIds(fname)

\* the rows of the summary table that are about file fname
RowsAbout(fname) ==
    {n \in 1..Len(summary_data) : summary_data[n].fname = fname}

\* the loaded tables other than fname that hold an identifier of fname's gap
Holders(fname) ==
    {loaded_dfs[n].k : n \in {m \in 1..Len(loaded_dfs) :
        loaded_dfs[m].k # fname /\ StoredIds(loaded_dfs[m].k) \cap Gap(fname) # {}}}

Elems(s) == {s[n] : n \in 1..Len(s)}

\* C1: once two or more tables are reconciled, every table has one summary
\* row, its missing count is |union - its identifier set|, and its status is
\* "Complete" exactly when that count is 0, "Inconsistent" otherwise.
C1_MissingCountAndStatus ==
    gate = "reconciled" =>
        /\ Len(summary_data) = Len(loaded_dfs)
        /\ \A n \in 1..Len(loaded_dfs) :
              /\ RowsAbout(loaded_dfs[n].k) = {n}
              /\ summary_data[n].missing = Cardinality(Gap(loaded_dfs[n].k))
              /\ summary_data[n].status \in {"Complete", "Inconsistent"}
              /\ summary_data[n].status = "Complete" <=> summary_data[n].missing = 0

\* a reconciliation with a complete table and a table missing two identifiers
C1_Witness ==
    /\ gate = "reconciled"
    /\ \E n \in 1..Len(summary_data) :
          summary_data[n].status = "Complete" /\ summary_data[n].total = 2
    /\ \E n \in 1..Len(summary_data) :
          summary_data[n].status = "Inconsistent" /\ summary_data[n].missing = 2

\* the loaded tables for which no identifier column resolved
NoIdTables ==
    {n \in 1..Len(loaded_dfs) :
        n <= Len(id_report) /\ id_report[n].id_col = None}

\* what C2 says of table n, but for its status
C2_Retained(n) ==
    /\ loaded_dfs[n].k \in KeySet(file_id_sets)
    /\ StoredIds(loaded_dfs[n].k) = {}
    /\ RowsAbout(loaded_dfs[n].k) # {}
    /\ \A m \in RowsAbout(loaded_dfs[n].k) :
          /\ summary_data[m].total = 0
          /\ summary_data[m].missing = Cardinality(EveryId)

\* C2 as stated: a table without identifier column takes part with an empty
\* set, misses the whole union and is always reported "Inconsistent".
C2_AlwaysInconsistent ==
    gate = "reconciled" =>
        \A n \in NoIdTables :
            /\ C2_Retained(n)
            /\ \A m \in RowsAbout(loaded_dfs[n].k) :
                  summary_data[m].status = "Inconsistent"

\* C2 amended: such a table takes part with an empty set and misses the whole
\* union; it is reported "Inconsistent" when the union holds an identifier, and
\* "Complete" (missing 0) when no loaded table holds any identifier.
C2_InconsistentUnlessUnionEmpty ==
    gate = "reconciled" =>
        \A n \in NoIdTables :
            /\ C2_Retained(n)
            /\ \A m \in RowsAbout(loaded_dfs[n].k) :
                  summary_data[m].status =
                      IF EveryId # {} THEN "Inconsistent" ELSE "Complete"

\* a table without identifier column is reported missing a union of 2 or more
C2_Witness ==
    /\ gate = "reconciled"
    /\ \E n \in NoIdTables :
          /\ RowsAbout(loaded_dfs[n].k) # {}
          /\ \A m \in RowsAbout(loaded_dfs[n].k) :
                /\ summary_data[m].missing >= 2
                /\ summary_data[m].status = "Inconsistent"

\* the record of the detailed mismatches that is about file fname
DetailsAbout(fname) ==
    {n \in 1..Len(details) : details[n].fname = fname}

\* what C7 says of the gaps themselves
C7_GapsAreHeldElsewhere ==
    \A n \in 1..Len(loaded_dfs) :
        LET fname == loaded_dfs[n].k
        IN  /\ \A x \in Gap(fname) :
                  \E m \in 1..Len(loaded_dfs) :
                      loaded_dfs[m].k # fname /\ x \in StoredIds(loaded_dfs[m].k)
            /\ Gap(fname) # {} =>
                  /\ Cardinality(DetailsAbout(fname)) = 1
                  /\ \A d \in DetailsAbout(fname) :
                        /\ details[d].missing = Gap(fname)
                        /\ Elems(details[d].source_files) = Holders(fname)
                        /\ details[d].source_files # << >>

\* C7 as stated: for every table with a gap, the source tables the report
\* names are exactly the other tables holding an identifier of the gap.
C7_ReportedSourcesExact ==
    (pc = "done" /\ gate = "reconciled") =>
        /\ C7_GapsAreHeldElsewhere
        /\ \A n \in 1..Len(loaded_dfs) :
              \A d \in DetailsAbout(loaded_dfs[n].k) :
                  Elems(details[d].shown) = Holders(loaded_dfs[n].k)

\* C7 amended: every missing identifier is held by another table; the source
\* list computed for a table with a gap is exactly the other tables holding an
\* identifier of the gap, never the table itself, and is not empty; the
\* message names the first SourceHead entries of that list.
C7_SourcesExactShownFirstThree ==
    (pc = "done" /\ gate = "reconciled") =>
        /\ C7_GapsAreHeldElsewhere
        /\ \A n \in 1..Len(loaded_dfs) :
              \A d \in DetailsAbout(loaded_dfs[n].k) :
                  /\ loaded_dfs[n].k \notin Elems(details[d].source_files)
                  /\ details[d].shown = Prefix(details[d].source_files, SourceHead)
                  /\ details[d].shown # << >>
                  /\ Len(details[d].source_files) <= SourceHead
                        => Elems(details[d].shown) = Holders(loaded_dfs[n].k)

\* a table with a gap of two identifiers, held by two other tables but not by
\* a third one
C7_Witness ==
    /\ pc = "done"
    /\ gate = "reconciled"
    /\ \E d \in 1..Len(details) :
          /\ Cardinality(details[d].missing) = 2
          /\ Len(details[d].source_files) = 2
          /\ Len(loaded_dfs) >= 4
-----------------------------------------------------------------------------
(* Properties of the per-file analysis, checked under SpecFile *)

\* the key of row r of df under the key columns cols
KeyOf(df, cols, r) == [c \in cols |-> Column(df, c)[r]]

\* the duplicate groups of an analysis: the keys of the rows it marked
DupGroups(df, report) ==
    {KeyOf(df, report.cols, r) : r \in report.dup_rows}

\* the pairs <<coarse, fine>> of analyses of the same table, one of the last
\* run and one of the run before, whose key columns are K1 and K2, K1 a
\* proper subset of K2 and both audited
RefinedPairs ==
    LET both == {<<dup_report[n], prev_dup_report[n]>> :
                    n \in 1..(IF Len(dup_report) < Len(prev_dup_report)
                              THEN Len(dup_report) ELSE Len(prev_dup_report))}
    IN  {p \in both \cup {<<q[2], q[1]>> : q \in both} :
            /\ p[1].audited /\ p[2].audited
            /\ p[1].cols \subseteq p[2].cols
            /\ p[1].cols # p[2].cols}

\* C5 as stated: auditing on K1, a proper subset of K2, yields at least as
\* many duplicate groups (keys occurring in 2 or more rows) as auditing on K2.
C5_GroupCountMonotone ==
    \A p \in RefinedPairs :
        Cardinality(DupGroups(loaded_dfs[1].v, p[1]))
            >= Cardinality(DupGroups(loaded_dfs[1].v, p[2]))

\* C5 amended: auditing on a non-empty K1, a proper subset of K2, marks every
\* row that auditing on K2 marks, so the reported number of duplicate rows
\* (dup_count) on K1 is at least the one on K2.
C5_DupCountMonotone ==
    \A p \in RefinedPairs :
        /\ p[2].dup_rows \subseteq p[1].dup_rows
        /\ p[1].dup_count >= p[2].dup_count
        /\ p[1].dup_count = Cardinality(p[1].dup_rows)
        /\ p[2].dup_count = Cardinality(p[2].dup_rows)

\* a table audited on one column and on two: four duplicate rows on the
\* coarse key, two of them on the fine key
C5_Witness ==
    \E p \in RefinedPairs : p[1].dup_count = 4 /\ p[2].dup_count = 2

\* the rows of df equal, column by column, to another row of df
WholeRowDuplicates(df) ==
    {r \in 1..Len(df.rows) :
        \E q \in 1..Len(df.rows) : q # r /\ df.rows[q] = df.rows[r]}

\* C6: when no key column is selected (the default of a table without
\* identifier column), the duplicate analysis is not skipped: the rows that
\* are duplicates under whole-row equality are reported.
C6_EmptySelectionAuditsWholeRows ==
    \A n \in 1..Len(dup_report) :
        dup_report[n].cols = {} =>
            /\ dup_report[n].dup_rows = WholeRowDuplicates(loaded_dfs[n].v)
            /\ dup_report[n].dup_count =
                  Cardinality(WholeRowDuplicates(loaded_dfs[n].v))

\* the candidate identifier columns, by priority
Candidates == <<PermitNumber, RecordNumber>>

\* the first candidate that is among the column names cols, None if none is
FirstCandidate(cols) ==
    LET present == {n \in 1..Len(Candidates) : Candidates[n] \in cols}
    IN  IF present = {} THEN None
        ELSE Candidates[CHOOSE n \in present : \A m \in present : n <= m]

\* C9: the identifier column of every analysed table is the first candidate
\* present among its column names, None if none is; it is a function of the
\* set of column names alone (not of their order, nor of the rows).
C9_FirstCandidateOfColumnSet ==
    \A n \in 1..Len(id_report) :
        id_report[n].id_col = FirstCandidate(ColumnSet(loaded_dfs[n].v))

\* a table listing 'Record Number' before 'Permit Number' resolved to
\* 'Permit Number'
C9_Witness ==
    /\ Len(id_report) = 1
    /\ loaded_dfs[1].v.columns = <<RecordNumber, PermitNumber>>
    /\ Len(loaded_dfs[1].v.rows) >= 2
    /\ id_report[1].id_col = PermitNumber
-----------------------------------------------------------------------------
(* Properties of the ingestion, checked under SpecIngest and SpecUrl *)

\* C3: while an archive is ingested, an entry that fails to decode or to parse
\* (the Latin-1 retry included) is dropped: no exception leaves
\* process_file_data, and every entry that decoded is in the mapping returned.
C3_DefectiveEntryIsDropped ==
    payload.kind = "zip" =>
        /\ pc # "raised"
        /\ raised = None
        /\ (pc = "returned" /\ ~corrupt) =>
              \A sub_file \in decoded : sub_file \in KeySet(processed_dfs)

\* C4: process_file_data does not raise for a corrupted archive, and returns
\* an empty mapping together with the error message, wherever the corruption
\* is met and however many entries were decoded before it.
C4_CorruptArchiveYieldsNothing ==
    (payload.kind = "zip" /\ corrupt) =>
        /\ pc = "returned"
        /\ raised = None
        /\ "corrupted zip" \in errors
        /\ processed_dfs = EmptyDict

\* C8, first sentence: a run that ends with fewer than two tables has reported
\* the "need at least 2 files" status, and neither a summary row nor the
\* perfect match.  (A run that loads no table reports nothing at all.)
C8_FewerThanTwoReportsInsufficient ==
    (pc = "done" /\ Len(loaded_dfs) < 2) =>
        /\ gate = "insufficient"
        /\ summary_data = << >>
        /\ ~perfect_match

\* C8, second sentence: a run in which two or more payloads were each
\* ingested as a table is reconciled, and its summary has a row for each of
\* these payloads.
C8_EveryIngestedPayloadHasEntry ==
    (pc = "done" /\ ingested >= 2) =>
        /\ gate = "reconciled"
        /\ Len(summary_data) >= ingested

\* C10: in a run of the URL input, a request that raises or a response with an
\* HTTP error status leaves the working set empty; nothing is added to it
\* while the payload is processed, nor when process_file_data raises; after a
\* successful call the working set is the whole mapping the call returned.
C10_FailedFetchLoadsNothing ==
    input_method = "File URL" =>
        /\ (fetch.status >= 400 \/ fetch.raised # None) =>
              /\ loaded_dfs = EmptyDict
              /\ processed_dfs = EmptyDict
        /\ pc \in {"input", "classify", "entries", "returned", "raised"} =>
              loaded_dfs = EmptyDict
        /\ raised # None => loaded_dfs = EmptyDict
        /\ (pc \in {"main", "recon", "details", "done"}
                /\ fetch.raised = None /\ raised = None) =>
              loaded_dfs = processed_dfs

\* a run whose download ended with an HTTP error status has come to its end
\* with the error shown and no table loaded
C10_Witness ==
    /\ input_method = "File URL"
    /\ fetch.raised = "HTTPError"
    /\ fetch.status = 404
    /\ pc = "done"
    /\ "error downloading" \in errors
    /\ loaded_dfs = EmptyDict
====
